---- MODULE Spec2Model ----
(***************************************************************************)
(* Model of the ICD-10 annotation viewer (elinker/viewer.py) and of its    *)
(* command line (elinker/cli.py):                                          *)
(*   - ICD10Viewer._process_data, the grouping of a document's annotations *)
(*     by code ("build"),                                                  *)
(*   - ICD10Viewer._update_text_highlighting / _highlight_text, the        *)
(*     rendering of one note as plain and highlighted pieces ("render"),   *)
(*   - the commands view and view_json, step by step,                      *)
(*   - _format_size, the text of a file size,                              *)
(*   - the mounted viewer: checkboxes, their events and the selection, and *)
(*   - the web viewer (icd10_viewer.py): the runs of main and              *)
(*     create_highlighted_text.                                            *)
(*                                                                         *)
(* Strings that the code slices or compares (note text, codes) are         *)
(* sequences of one-character strings; strings that it only copies         *)
(* (code_system, description) are TLA+ strings.  A Python dict is a        *)
(* function whose DOMAIN is the set of keys present.                       *)
(***************************************************************************)
EXTENDS Integers, Sequences, FiniteSets, TLC

VARIABLES
    phase,              \* position of the run: "loaded" / "built" / "call" / "rendered" / ...
    data,               \* ICD10Viewer.data["notes"]: the parsed document's notes
    annotation_groups,  \* ICD10Viewer.annotation_groups, in dict insertion order
    notes,              \* ICD10Viewer.notes: list of NoteData
    sorted_groups,      \* ICD10Viewer.sorted_groups
    text,               \* render input: the note's text
    annotations,        \* render input: the note's annotation list
    selected_codes,     \* render input: the codes of the selected groups
    display,            \* content handed to the note's Static widget
    command,            \* the command of the run: "view" / "view_json"
    path_kind,          \* what file_path names: nothing, a directory, a file
    file_content,       \* what the file holds
    file_size,          \* st_size of the file, in digits of base 1024, lowest first
    size_str,           \* the text _format_size returned
    exit_code,          \* <<>> until sys.exit(n), then <<n>>
    console_out,        \* what was printed on console
    console_err,        \* what was printed on console_err
    trace,              \* the calls of the command so far, in order
    is_mounted,         \* ICD10Viewer.is_mounted
    set_objects,        \* the set objects created so far; the first is the class-level default
    selected_groups,    \* ICD10Viewer.selected_groups: which of set_objects it is bound to
    checked,            \* Checkbox.value of every group's checkbox
    note_displays,      \* content of every note's Static widget
    pending,            \* Checkbox.Changed events posted and not yet handled
    web_files,          \* web viewer: the documents of the data directory
    selected_file,      \* web viewer: the file chosen in the sidebar
    selected_note_idx,  \* web viewer: the note chosen in the sidebar
    selected_annotation,\* web viewer: st.session_state.selected_annotation
    page                \* web viewer: what the last run of main put on the page

cli == <<command, path_kind, file_content, file_size, size_str, exit_code,
         console_out, console_err, trace>>

ui == <<is_mounted, set_objects, selected_groups, checked, note_displays, pending>>

web == <<web_files, selected_file, selected_note_idx, selected_annotation, page>>

vars == <<phase, data, annotation_groups, notes, sorted_groups,
          text, annotations, selected_codes, display, cli, ui, web>>

-----------------------------------------------------------------------------
(* Bounds of the checked instances *)

MaxLen == 3         \* length of the generated note text
MaxSpans == 2       \* annotations per rendered note
MaxNotes == 2       \* notes per document
MaxDocAnns == 3     \* annotations per document, over all its notes

-----------------------------------------------------------------------------
(* Python values *)

\* Python's None; no string, since strings are sequences of single characters
None == <<"None">>

\* session_state.selected_annotation = None: the value that stands for None
\* where the other values are indices, which are never negative
NoSelection == -1

\* dict.get(key, default)
Get(d, key, default) == IF key \in DOMAIN d THEN d[key] ELSE default

\* dict.get(key)
GetOrNone(d, key) == Get(d, key, None)

Min(a, b) == IF a < b THEN a ELSE b
Max(a, b) == IF a > b THEN a ELSE b

\* s[lo:hi] of a Python sequence: negative indices count from the end,
\* indices are clamped to the sequence, an empty range gives the empty sequence
Slice(s, lo, hi) ==
    LET n == Len(s)
        norm(i) == IF i < 0 THEN Max(i + n, 0) ELSE Min(i, n)
    IN  IF norm(lo) >= norm(hi) THEN <<>> ELSE SubSeq(s, norm(lo) + 1, norm(hi))

\* s[lo:]
SliceFrom(s, lo) == Slice(s, lo, Len(s))

\* ord(c) for the characters that occur in codes
Ord(c) ==
    CASE c = "." -> 46
      [] c = "1" -> 49
      [] c = "9" -> 57
      [] c = "A" -> 65
      [] c = "B" -> 66
      [] c = "E" -> 69
      [] c = "U" -> 85
      [] c = "k" -> 107
      [] c = "n" -> 110
      [] c = "o" -> 111
      [] c = "w" -> 119

\* a < b for Python strings: lexicographic by code point, a proper prefix first
RECURSIVE StrLess(_, _)
StrLess(a, b) ==
    IF b = <<>> THEN FALSE
    ELSE IF a = <<>> THEN TRUE
    ELSE IF Ord(Head(a)) # Ord(Head(b)) THEN Ord(Head(a)) < Ord(Head(b))
    ELSE StrLess(Tail(a), Tail(b))

-----------------------------------------------------------------------------
(* render: ICD10Viewer._highlight_text and its caller *)

\* One piece of a rich Text: the appended string and whether it carries the
\* highlight style
Segment(content, highlighted) == [content |-> content, highlighted |-> highlighted]

\* rich_text.append(s) / rich_text.append(s, style=...): the rich Text is
\* modelled as the sequence of the pieces appended to it
RichAppend(rich_text, s, highlighted) == Append(rich_text, Segment(s, highlighted))

\* ValidPositions without the comparison against the end of the text
UncheckedEnd(txt, begin, end) ==
    /\ 0 <= begin
    /\ begin < Len(txt)
    /\ begin < end

\* ValidPositions without the comparison of begin against end
UncheckedOrder(txt, begin, end) ==
    /\ 0 <= begin
    /\ begin < Len(txt)
    /\ end <= Len(txt)

\* the validation of one annotation's positions against the text
ValidPositions(txt, begin, end) ==
    /\ 0 <= begin
    /\ begin < Len(txt)
    /\ begin < end
    /\ end <= Len(txt)

\* CodeSelected letting every annotation pass
AnyCode(annotation, codes) == TRUE

\* does the annotation's code pass the filter of the selected codes
CodeSelected(annotation, codes) == GetOrNone(annotation, "code") \in codes

\* the loop that collects the spans to highlight, in input order
RECURSIVE CollectSpans(_, _, _)
CollectSpans(txt, anns, codes) ==
    IF anns = <<>> THEN <<>>
    ELSE LET annotation == Head(anns)
             begin == Get(annotation, "begin", 0)
             end == Get(annotation, "end", 0)
             rest == CollectSpans(txt, Tail(anns), codes)
         IN  IF CodeSelected(annotation, codes) /\ ValidPositions(txt, begin, end)
             THEN <<[begin |-> begin, end |-> end,
                     code |-> GetOrNone(annotation, "code")]>> \o rest
             ELSE rest

\* InsertByBegin placing x before the elements of equal begin
RECURSIVE InsertBeforeEqual(_, _)
InsertBeforeEqual(sorted, x) ==
    IF sorted = <<>> THEN <<x>>
    ELSE IF x.begin <= Head(sorted).begin THEN <<x>> \o sorted
    ELSE <<Head(sorted)>> \o InsertBeforeEqual(Tail(sorted), x)

\* the place of x in a list sorted by begin: after every element whose begin
\* is not greater (list.sort is stable)
RECURSIVE InsertByBegin(_, _)
InsertByBegin(sorted, x) ==
    IF sorted = <<>> THEN <<x>>
    ELSE IF x.begin < Head(sorted).begin THEN <<x>> \o sorted
    ELSE <<Head(sorted)>> \o InsertByBegin(Tail(sorted), x)

\* highlight_spans.sort(key=lambda x: x["begin"])
RECURSIVE SortSpans(_)
SortSpans(spans) ==
    IF spans = <<>> THEN <<>>
    ELSE InsertByBegin(SortSpans(SubSeq(spans, 1, Len(spans) - 1)), spans[Len(spans)])

\* NextPos going on from the start of the span
SpanBegin(span, last_pos) == span.begin

\* the scan going on one character after the end of a span
PastEnd(span, last_pos) == span.end + 1

\* the position from which the scan goes on after a span
NextPos(span, last_pos) == span.end

\* WalkSpans passing over a span that starts before last_pos
RECURSIVE SkipOverlapped(_, _, _, _)
SkipOverlapped(txt, spans, last_pos, rich_text) ==
    IF spans = <<>>
    THEN IF last_pos < Len(txt)
         THEN RichAppend(rich_text, SliceFrom(txt, last_pos), FALSE)
         ELSE rich_text
    ELSE LET span == Head(spans)
             before == IF span.begin > last_pos
                       THEN RichAppend(rich_text, Slice(txt, last_pos, span.begin), FALSE)
                       ELSE rich_text
             after == RichAppend(before, Slice(txt, span.begin, span.end), TRUE)
         IN  IF span.begin < last_pos
             THEN SkipOverlapped(txt, Tail(spans), last_pos, rich_text)
             ELSE SkipOverlapped(txt, Tail(spans), span.end, after)

\* WalkSpans appending the remaining text without looking at its length
RECURSIVE AlwaysTrailing(_, _, _, _)
AlwaysTrailing(txt, spans, last_pos, rich_text) ==
    IF spans = <<>>
    THEN RichAppend(rich_text, SliceFrom(txt, last_pos), FALSE)
    ELSE LET span == Head(spans)
             before == IF span.begin > last_pos
                       THEN RichAppend(rich_text, Slice(txt, last_pos, span.begin), FALSE)
                       ELSE rich_text
             after == RichAppend(before, Slice(txt, span.begin, span.end), TRUE)
         IN  AlwaysTrailing(txt, Tail(spans), span.end, after)

\* the loop over the sorted spans, from last_pos on
RECURSIVE WalkSpans(_, _, _, _)
WalkSpans(txt, spans, last_pos, rich_text) ==
    IF spans = <<>>
    THEN \* the remaining text
         IF last_pos < Len(txt)
         THEN RichAppend(rich_text, SliceFrom(txt, last_pos), FALSE)
         ELSE rich_text
    ELSE LET span == Head(spans)
             before == IF span.begin > last_pos
                       THEN RichAppend(rich_text, Slice(txt, last_pos, span.begin), FALSE)
                       ELSE rich_text
             after == RichAppend(before, Slice(txt, span.begin, span.end), TRUE)
         IN  WalkSpans(txt, Tail(spans), NextPos(span, last_pos), after)

\* _highlight_text(text, annotations, selected_codes)
HighlightText(txt, anns, codes) ==
    WalkSpans(txt, SortSpans(CollectSpans(txt, anns, codes)), 0, <<>>)

\* text_widget.update(note.text): the plain string, one piece without style
PlainText(txt) == <<Segment(txt, FALSE)>>

\* Render without the branch for an empty selection
AlwaysHighlight(txt, anns, codes) == HighlightText(txt, anns, codes)

\* what _update_text_highlighting hands to a note's widget
Render(txt, anns, codes) ==
    IF codes = {} THEN PlainText(txt) ELSE HighlightText(txt, anns, codes)

-----------------------------------------------------------------------------
(* build: ICD10Viewer._process_data *)

\* NoteData with the default of category for a missing description too
UnknownDescription(note_dict, note_idx, start_offset) ==
    [note_id      |-> Get(note_dict, "note_id", note_idx),
     category     |-> Get(note_dict, "category", "Unknown"),
     description  |-> Get(note_dict, "description", "Unknown"),
     text         |-> Get(note_dict, "text", <<>>),
     annotations  |-> Get(note_dict, "annotations", <<>>),
     start_offset |-> start_offset,
     end_offset   |-> start_offset + Len(Get(note_dict, "text", <<>>))]

\* NoteData(note_id, category, description, text, annotations, start_offset)
NoteData(note_dict, note_idx, start_offset) ==
    [note_id      |-> Get(note_dict, "note_id", note_idx),
     category     |-> Get(note_dict, "category", "Unknown"),
     description  |-> Get(note_dict, "description", ""),
     text         |-> Get(note_dict, "text", <<>>),
     annotations  |-> Get(note_dict, "annotations", <<>>),
     start_offset |-> start_offset,
     end_offset   |-> start_offset + Len(Get(note_dict, "text", <<>>))]

\* AnnotationGroup(code, code_system, description), with no instance yet
AnnotationGroup(code, code_system, description) ==
    [code |-> code, code_system |-> code_system, description |-> description,
     instances |-> <<>>]

\* code in self.annotation_groups
HasGroup(groups, code) == \E i \in 1..Len(groups) : groups[i].code = code

\* GroupKey with the default of the note category in place of the empty string
UnknownKey(annotation) ==
    Get(annotation, "code", <<"U", "n", "k", "n", "o", "w", "n">>)

\* the group key of an annotation
GroupKey(annotation) == Get(annotation, "code", <<>>)

\* the seed of a group: the annotation that creates it
NewGroup(annotation) ==
    AnnotationGroup(GroupKey(annotation),
                    Get(annotation, "code_system", ""),
                    Get(annotation, "description", ""))

\* AddInstance putting the new instance first
PrependInstance(groups, code, note_idx, annotation) ==
    [i \in 1..Len(groups) |->
        IF groups[i].code = code
        THEN [groups[i] EXCEPT !.instances = <<<<note_idx, annotation>>>> \o @]
        ELSE groups[i]]

\* AnnotationGroup.add_instance on the group of the given code
AddInstance(groups, code, note_idx, annotation) ==
    [i \in 1..Len(groups) |->
        IF groups[i].code = code
        THEN [groups[i] EXCEPT !.instances = Append(@, <<note_idx, annotation>>)]
        ELSE groups[i]]

\* GroupAnnotation overwriting a known group's code_system and description
LastSeenGroupAnnotation(groups, note_idx, annotation) ==
    LET code == GroupKey(annotation)
        known == IF HasGroup(groups, code)
                 THEN [i \in 1..Len(groups) |->
                          IF groups[i].code = code
                          THEN [NewGroup(annotation) EXCEPT
                                    !.instances = groups[i].instances]
                          ELSE groups[i]]
                 ELSE Append(groups, NewGroup(annotation))
    IN  AddInstance(known, code, note_idx, annotation)

\* the body of the loop over one note's annotations
GroupAnnotation(groups, note_idx, annotation) ==
    LET code == GroupKey(annotation)
        known == IF HasGroup(groups, code) THEN groups
                 ELSE Append(groups, NewGroup(annotation))
    IN  AddInstance(known, code, note_idx, annotation)

\* the loop over one note's annotations
RECURSIVE GroupAnnotations(_, _, _)
GroupAnnotations(groups, note_idx, anns) ==
    IF anns = <<>> THEN groups
    ELSE GroupAnnotations(GroupAnnotation(groups, note_idx, Head(anns)),
                          note_idx, Tail(anns))

\* the loop over the notes, from note note_idx on; st holds annotation_groups,
\* notes and current_offset
RECURSIVE ProcessNotes(_, _, _)
ProcessNotes(st, note_dicts, note_idx) ==
    IF note_dicts = <<>> THEN st
    ELSE LET note_dict == Head(note_dicts)
             note_data == NoteData(note_dict, note_idx, st.current_offset)
         IN  ProcessNotes(
                 [annotation_groups |->
                      GroupAnnotations(st.annotation_groups, note_idx,
                                       Get(note_dict, "annotations", <<>>)),
                  notes |-> Append(st.notes, note_data),
                  current_offset |-> note_data.end_offset],
                 Tail(note_dicts), note_idx + 1)

\* the place of group g in a list sorted by code (sorted is stable)
RECURSIVE InsertByCode(_, _)
InsertByCode(sorted, g) ==
    IF sorted = <<>> THEN <<g>>
    ELSE IF StrLess(g.code, Head(sorted).code) THEN <<g>> \o sorted
    ELSE <<Head(sorted)>> \o InsertByCode(Tail(sorted), g)

\* SortGroups leaving the groups in dict order
UnsortedGroups(groups) == groups

\* sorted(self.annotation_groups.values(), key=lambda g: g.code)
RECURSIVE SortGroups(_)
SortGroups(groups) ==
    IF groups = <<>> THEN <<>>
    ELSE InsertByCode(SortGroups(SubSeq(groups, 1, Len(groups) - 1)),
                      groups[Len(groups)])

\* _process_data on a viewer whose groups and notes are groups0 and notes0
ProcessData(doc, groups0, notes0) ==
    LET st == ProcessNotes([annotation_groups |-> groups0, notes |-> notes0,
                            current_offset |-> 0],
                           Get(doc, "notes", <<>>), 0)
    IN  [annotation_groups |-> st.annotation_groups,
         notes |-> st.notes,
         sorted_groups |-> SortGroups(st.annotation_groups)]

\* AnnotationGroup.count
Count(group) == Len(group.instances)

\* len(text) in NoteData raises TypeError for a text that is null
NoteRaises(note_dict) == Get(note_dict, "text", <<>>) = None

\* sorted raises TypeError when it compares a null code with a string: with
\* two groups or more every key is compared at least once
SortRaises(groups) ==
    /\ Len(groups) >= 2
    /\ \E i \in 1..Len(groups) : groups[i].code = None

\* the grouping of all notes of the document, without the sort
RECURSIVE GroupAll(_, _, _)
GroupAll(groups, note_dicts, note_idx) ==
    IF note_dicts = <<>> THEN groups
    ELSE GroupAll(GroupAnnotations(groups, note_idx,
                                   Get(Head(note_dicts), "annotations", <<>>)),
                  Tail(note_dicts), note_idx + 1)

\* does _process_data end in an exception on a viewer whose groups are groups0
ProcessRaises(doc, groups0) ==
    LET note_dicts == Get(doc, "notes", <<>>)
    IN  \/ \E i \in 1..Len(note_dicts) : NoteRaises(note_dicts[i])
        \/ SortRaises(GroupAll(groups0, note_dicts, 0))

\* __init__ without the two assignments that empty the groups and the notes
Accumulated(doc, groups, nts) == ProcessData(doc, groups, nts)

\* __init__: self.annotation_groups = {}, self.notes = [], then _process_data;
\* groups and nts are what an earlier construction left
Constructed(doc, groups, nts) == ProcessData(doc, <<>>, <<>>)

-----------------------------------------------------------------------------
(* The inputs of the checked instances *)

\* the generated note text: MaxLen distinct characters
Alphabet == <<"a", "b", "c", "d", "e", "f", "g", "h">>
GeneratedText == SubSeq(Alphabet, 1, MaxLen)
Texts == {<<>>, GeneratedText}

\* the codes of the generated annotations
CodeA == <<"A">>
CodeAB == <<"A", "B">>
CodeB == <<"B">>
RenderCodes == {CodeA, CodeB}

\* offsets that pass the validation on the generated text ...
ValidOffsets == {s \in (0..MaxLen) \X (0..MaxLen) : s[1] < s[2]}
\* ... and offsets that fail each clause of it: begin < 0, begin >= len,
\* end > len, begin = end, begin > end
InvalidOffsets ==
    {<<-1, 1>>, <<MaxLen, MaxLen + 1>>, <<MaxLen - 1, MaxLen + 1>>, <<1, 1>>, <<2, 1>>}

\* the annotations of a rendered note; one has no code, one has no offsets
RenderAnnotations ==
    {[code |-> c, begin |-> s[1], end |-> s[2]] :
        c \in RenderCodes, s \in ValidOffsets \cup InvalidOffsets}
    \cup {[begin |-> 0, end |-> 1], [code |-> CodeA]}

\* the scenario of the specification's section 8
ScenarioText ==
    <<"T", "h", "e", " ", "p", "a", "t", "i", "e", "n", "t", " ", "h", "a", "s", " ",
      "d", "i", "a", "b", "e", "t", "e", "s", ".">>
ScenarioCode == <<"E", "1", "1", ".", "9">>
ScenarioAnnotation == [code |-> ScenarioCode, begin |-> 17, end |-> 25]
ReversedAnnotation == [code |-> ScenarioCode, begin |-> 5, end |-> 3]
\* the offsets of the word "diabetes" in the scenario's text
DiabetesAnnotation == [code |-> ScenarioCode, begin |-> 16, end |-> 24]

\* the selections under which a note is rendered
CodeSets == (SUBSET RenderCodes) \cup {{ScenarioCode}}

\* the annotations of a document: every code, also none, under two variants
\* of the other fields (the second with offsets that fail the validation)
DocCodes == {<<>>, CodeA, CodeAB, CodeB}
DocVariants ==
    {[code_system |-> "ICD-10-CM", description |-> "first", begin |-> 0, end |-> 1],
     [code_system |-> "ICD-10-PCS", description |-> "second", begin |-> 2, end |-> 1]}
WithCode(annotation, code) ==
    [k \in DOMAIN annotation \cup {"code"} |->
        IF k = "code" THEN code ELSE annotation[k]]
DocAnnotations ==
    DocVariants \cup {WithCode(v, c) : v \in DocVariants, c \in DocCodes}

\* the document of n notes whose annotations are anns, anns[i] in note of[i]
\* (of is ascending, notes are numbered from 1 here)
DocOf(n, anns, of) ==
    [hadm_id |-> "Unknown",
     notes |-> [j \in 1..n |->
        [text |-> GeneratedText,
         annotations |->
            SubSeq(anns,
                   Cardinality({i \in DOMAIN of : of[i] < j}) + 1,
                   Cardinality({i \in DOMAIN of : of[i] <= j}))]]]

Ascending(of) == \A i, j \in DOMAIN of : i < j => of[i] <= of[j]

\* notes and annotations with fields missing
SparseNotes ==
    {[note_id |-> 7],
     [text |-> GeneratedText],
     [category |-> "Radiology", description |-> "Chest", text |-> GeneratedText,
      annotations |-> <<[begin |-> 0, end |-> 1]>>],
     [category |-> "Radiology",
      annotations |-> <<[code |-> CodeA],
                        [code |-> CodeA, code_system |-> "ICD-10-CM",
                         description |-> "first"]>>]}

\* notes with a field that is null in the JSON document
NullNotes ==
    {[text |-> GeneratedText,
      annotations |-> <<[code |-> None, begin |-> 0, end |-> 1]>>],
     [text |-> None]}

-----------------------------------------------------------------------------
(* The viewer's construction: ICD10Viewer.__init__ *)

\* no viewer is mounted and no page of the web viewer is shown
NoScreen ==
    /\ is_mounted = FALSE
    /\ set_objects = <<{}>>
    /\ selected_groups = 1
    /\ checked = <<>>
    /\ note_displays = <<>>
    /\ pending = <<>>
    /\ web_files = <<>>
    /\ selected_file = 0
    /\ selected_note_idx = 0
    /\ selected_annotation = NoSelection
    /\ page = [error |-> "none"]

\* no command of the command line is part of the run
NoCommand ==
    /\ command = "none"
    /\ path_kind = "none"
    /\ file_content = [kind |-> "none"]
    /\ file_size = <<>>
    /\ size_str = ""
    /\ exit_code = <<>>
    /\ console_out = <<>>
    /\ console_err = <<>>
    /\ trace = <<>>

NoRender ==
    /\ text = <<>>
    /\ annotations = <<>>
    /\ selected_codes = {}
    /\ display = <<>>

Init ==
    /\ phase = "loaded"
    /\ \/ \E n \in 0..MaxNotes, k \in 0..MaxDocAnns :
            \E of \in {f \in [1..k -> 1..n] : Ascending(f)} :
                \E anns \in [1..k -> DocAnnotations] :
                    data = DocOf(n, anns, of)
       \/ data = [hadm_id |-> "Unknown"]
       \/ \E n \in 1..MaxNotes :
            \E ns \in [1..n -> SparseNotes \cup NullNotes] :
                data = [hadm_id |-> "Unknown", notes |-> ns]
    /\ annotation_groups = <<>>
    /\ notes = <<>>
    /\ sorted_groups = <<>>
    /\ NoRender
    /\ NoCommand
    /\ NoScreen

\* ICD10Viewer(data, file_path): empty groups and notes, then _process_data
Construct ==
    /\ phase = "loaded"
    /\ ~ProcessRaises(data, <<>>)
    /\ phase' = "built"
    /\ \E built \in {Constructed(data, annotation_groups, notes)} :
           /\ annotation_groups' = built.annotation_groups
           /\ notes' = built.notes
           /\ sorted_groups' = built.sorted_groups
    /\ UNCHANGED <<data, text, annotations, selected_codes, display, cli, ui, web>>

\* ICD10Viewer(data, file_path) ending in the TypeError of _process_data
ConstructRaises ==
    /\ phase = "loaded"
    /\ ProcessRaises(data, <<>>)
    /\ phase' = "error"
    /\ UNCHANGED <<data, annotation_groups, notes, sorted_groups,
                   text, annotations, selected_codes, display, cli, ui, web>>

\* ICD10Viewer(data, file_path) once more, on the same document
Reconstruct ==
    /\ phase \in {"built", "rebuilt"}
    /\ phase' = "rebuilt"
    /\ \E built \in {Constructed(data, annotation_groups, notes)} :
           /\ annotation_groups' = built.annotation_groups
           /\ notes' = built.notes
           /\ sorted_groups' = built.sorted_groups
    /\ UNCHANGED <<data, text, annotations, selected_codes, display, cli, ui, web>>

Next == Construct \/ ConstructRaises \/ Reconstruct

Spec == Init /\ [][Next]_vars

-----------------------------------------------------------------------------
(* The rendering of one note under a selection *)

NoDocument ==
    /\ data = [hadm_id |-> "Unknown"]
    /\ annotation_groups = <<>>
    /\ notes = <<>>
    /\ sorted_groups = <<>>

RenderInit ==
    /\ phase = "call"
    /\ \/ /\ text \in Texts
          /\ \E k \in 0..MaxSpans : annotations \in [1..k -> RenderAnnotations]
          /\ selected_codes \in CodeSets
       \/ /\ text = ScenarioText
          /\ annotations \in {<<ScenarioAnnotation>>, <<ReversedAnnotation>>,
                              <<DiabetesAnnotation>>}
          /\ selected_codes \in CodeSets
    /\ display = PlainText(text)
    /\ NoDocument
    /\ NoCommand
    /\ NoScreen

\* _update_text_highlighting for the note, on the first selection event
UpdateNoteText ==
    /\ phase = "call"
    /\ phase' = "rendered"
    /\ display' = Render(text, annotations, selected_codes)
    /\ UNCHANGED <<data, annotation_groups, notes, sorted_groups,
                   text, annotations, selected_codes, cli, ui, web>>

\* a later change of the selection: watch_selected_groups updates the note again
ChangeSelection ==
    /\ phase = "rendered"
    /\ \E codes \in CodeSets :
          /\ codes # selected_codes
          /\ selected_codes' = codes
          /\ display' = Render(text, annotations, codes)
    /\ UNCHANGED <<phase, data, annotation_groups, notes, sorted_groups,
                   text, annotations, cli, ui, web>>

RenderNext == UpdateNoteText \/ ChangeSelection

SpecRender == RenderInit /\ [][RenderNext]_vars

-----------------------------------------------------------------------------
(* _format_size (elinker/cli.py) *)

(* A size is kept in digits of base 1024, lowest first, since 1024^4 does  *)
(* not fit the 32-bit integers of TLC.  Below 2^53 an int converts to a    *)
(* float without rounding and a division by 1024.0 only lowers the         *)
(* exponent, so the float the code holds after k divisions is exactly      *)
(* size / 1024^k: its integer part is the digits from the k-th up, its     *)
(* fraction the k digits below, highest first.                             *)
Base == 1024

\* the units of the loop, and the one of the return after it
Units == <<"B", "KB", "MB", "GB">>
LastUnit == "TB"

\* the float of an int
ToFloat(digits) == [int |-> digits, frac |-> <<>>]

\* the number a digit sequence stands for
RECURSIVE IntValue(_)
IntValue(digits) ==
    IF digits = <<>> THEN 0 ELSE Head(digits) + Base * IntValue(Tail(digits))

\* size_bytes <= 1024.0
AtMost1024(v) ==
    \/ \A i \in 2..Len(v.int) : v.int[i] = 0
    \/ /\ v.int[1] = 0
       /\ \A i \in 1..Len(v.frac) : v.frac[i] = 0
       /\ Len(v.int) >= 2
       /\ v.int[2] = 1
       /\ \A i \in 3..Len(v.int) : v.int[i] = 0

\* size_bytes < 1024.0
LessThan1024(v) == \A i \in 2..Len(v.int) : v.int[i] = 0

\* size_bytes /= 1024.0
Divide(v) == [int |-> Tail(v.int), frac |-> <<Head(v.int)>> \o v.frac]

\* 100 times a fraction: the digits of the product below the point, highest
\* first, and the integer that is carried out at the top
RECURSIVE Times100(_)
Times100(frac) ==
    IF frac = <<>> THEN [carry |-> 0, rest |-> <<>>]
    ELSE LET low == Times100(Tail(frac))
             p == 100 * Head(frac) + low.carry
         IN  [carry |-> p \div Base, rest |-> <<p % Base>> \o low.rest]

\* a fraction against one half: "above", "half" or "below"
AgainstHalf(rest) ==
    IF rest = <<>> THEN "below"
    ELSE LET lower == \E i \in 2..Len(rest) : rest[i] # 0
         IN  IF rest[1] > Base \div 2 \/ (rest[1] = Base \div 2 /\ lower) THEN "above"
             ELSE IF rest[1] = Base \div 2 THEN "half"
             ELSE "below"

\* the hundredths that are nearest to the value, the even ones on a tie
Hundredths(v) ==
    LET p == Times100(v.frac)
        floor == 100 * IntValue(v.int) + p.carry
        side == AgainstHalf(p.rest)
    IN  IF side = "above" \/ (side = "half" /\ floor % 2 = 1) THEN floor + 1 ELSE floor

TwoDigits(c) == IF c < 10 THEN "0" \o ToString(c) ELSE ToString(c)

\* f"{size_bytes:.2f}"
Fixed2(v) ==
    LET h == Hundredths(v)
    IN  ToString(h \div 100) \o "." \o TwoDigits(h % 100)

\* the loop over the units, then the return after it
RECURSIVE FormatLoop(_, _)
FormatLoop(v, units) ==
    IF units = <<>> THEN Fixed2(v) \o " " \o LastUnit
    ELSE IF LessThan1024(v) THEN Fixed2(v) \o " " \o Head(units)
    ELSE FormatLoop(Divide(v), Tail(units))

\* _format_size(size_bytes)
FormatSize(size_bytes) == FormatLoop(ToFloat(size_bytes), Units)

\* the digits of a size given as an integer of TLC
RECURSIVE Digits(_, _)
Digits(n, count) ==
    IF count = 0 THEN <<>> ELSE <<n % Base>> \o Digits(n \div Base, count - 1)

\* one more digit than there are units in the loop: the last unit takes the rest
DigitCount == Len(Units) + 1

SizeOf(n) == Digits(n, DigitCount)

\* the digits sizes are made of: 128 and 384 are ties of the rounding at KB
SizeDigits == {0, 1, 128, 384, 512, 1023}

\* the highest digit goes up to 8191: sizes stay below 2^53
TopDigits == {0, 1, 8191}

\* the sizes of the tests of _format_size
TestedSizes == {SizeOf(0), SizeOf(100), SizeOf(1023), SizeOf(1024), SizeOf(1536),
                SizeOf(1024 * 1024), SizeOf(1024 * 1024 * 1024)}

Sizes ==
    {low \o <<top>> : low \in [1..Len(Units) -> SizeDigits], top \in TopDigits}
        \cup TestedSizes

SizeInit ==
    /\ phase = "size"
    /\ file_size \in Sizes
    /\ size_str = ""
    /\ command = "none"
    /\ path_kind = "none"
    /\ file_content = [kind |-> "none"]
    /\ exit_code = <<>>
    /\ console_out = <<>>
    /\ console_err = <<>>
    /\ trace = <<>>
    /\ NoDocument
    /\ NoRender
    /\ NoScreen

\* size_str = _format_size(file_size)
FormatSizeCall ==
    /\ phase = "size"
    /\ phase' = "sized"
    /\ size_str' = FormatSize(file_size)
    /\ UNCHANGED <<data, annotation_groups, notes, sorted_groups,
                   text, annotations, selected_codes, display,
                   command, path_kind, file_content, file_size, exit_code,
                   console_out, console_err, trace, ui, web>>

SizeNext == FormatSizeCall

SpecSize == SizeInit /\ [][SizeNext]_vars

-----------------------------------------------------------------------------
(* The commands view and view_json (elinker/cli.py) *)

FilePath == "data/encounter.json"
FileName == "encounter.json"

\* the string "notes", as the characters Python compares
NotesKey == <<"n", "o", "t", "e", "s">>

\* sub in s, for two str
Contains(s, sub) ==
    \E i \in 0..(Len(s) - Len(sub)) : SubSeq(s, i + 1, i + Len(sub)) = sub

\* "notes" in data raises TypeError when data is no container
InRaises(doc) == doc.kind = "number"

\* "notes" in data: a key of a dict, an element of a list, a part of a str
HasNotes(doc) ==
    CASE doc.kind = "object" -> "notes" \in DOMAIN doc.value
      [] doc.kind = "array" -> \E i \in 1..Len(doc.value) : doc.value[i] = NotesKey
      [] doc.kind = "string" -> Contains(doc.value, NotesKey)

\* every exception, whatever its class, gets the message of except Exception
OnlyGeneric(cmd, exception) == exception

\* the message of the except clause that takes the exception
HandlerMessage(cmd, exception) ==
    IF exception = "JSONDecodeError"
    THEN (IF cmd = "view_json" THEN "Invalid JSON in file" ELSE "Invalid JSON")
    ELSE IF exception = "PermissionError" /\ cmd = "view_json" THEN "Permission denied"
    ELSE exception

\* console_err.print(message); sys.exit(1)
Fail(message) ==
    /\ console_err' = Append(console_err, message)
    /\ exit_code' = <<1>>
    /\ phase' = "exited"

\* the documents a file holds as a JSON object
CliDocuments ==
    {[hadm_id |-> "Unknown"],
     [hadm_id |-> "Unknown", notes |-> <<>>],
     [hadm_id |-> "Unknown",
      notes |-> <<[text |-> GeneratedText,
                   annotations |-> <<[code |-> CodeA, begin |-> 0, end |-> 1]>>]>>],
     [hadm_id |-> "Unknown", notes |-> <<[text |-> None]>>]}

\* what a file holds: bytes that are no UTF-8, text that is no JSON, or a
\* JSON value
Contents ==
    {[kind |-> "undecodable"], [kind |-> "invalid"], [kind |-> "number", value |-> 5]}
        \cup {[kind |-> "object", value |-> d] : d \in CliDocuments}
        \cup {[kind |-> "array", value |-> a] : a \in {<<>>, <<NotesKey>>}}
        \cup {[kind |-> "string", value |-> s] :
                  s \in {<<"n", "o">>, NotesKey, <<"n", "o">> \o NotesKey}}

CliSizes == {SizeOf(100), SizeOf(1536)}

CliInit ==
    /\ phase = "start"
    /\ command \in {"view", "view_json"}
    /\ path_kind \in {"missing", "directory", "file", "unreadable"}
    /\ IF path_kind \in {"file", "unreadable"}
       THEN file_content \in Contents /\ file_size \in CliSizes
       ELSE file_content = [kind |-> "none"] /\ file_size = <<>>
    /\ size_str = ""
    /\ exit_code = <<>>
    /\ console_out = <<>>
    /\ console_err = <<>>
    /\ trace = <<>>
    /\ data = None
    /\ annotation_groups = <<>>
    /\ notes = <<>>
    /\ sorted_groups = <<>>
    /\ NoRender
    /\ NoScreen

\* if not file_path.exists(): error, exit
CheckExists ==
    /\ phase = "start"
    /\ trace' = Append(trace, "exists")
    /\ IF path_kind = "missing"
       THEN Fail("File not found")
       ELSE phase' = "exists" /\ UNCHANGED <<console_err, exit_code>>
    /\ UNCHANGED <<data, annotation_groups, notes, sorted_groups,
                   text, annotations, selected_codes, display,
                   command, path_kind, file_content, file_size, size_str, console_out, ui, web>>

\* if not file_path.is_file(): error, exit
CheckIsFile ==
    /\ phase = "exists"
    /\ trace' = Append(trace, "is_file")
    /\ IF path_kind = "directory"
       THEN Fail("Not a file")
       ELSE phase' = "is_file" /\ UNCHANGED <<console_err, exit_code>>
    /\ UNCHANGED <<data, annotation_groups, notes, sorted_groups,
                   text, annotations, selected_codes, display,
                   command, path_kind, file_content, file_size, size_str, console_out, ui, web>>

\* with open(file_path, encoding="utf-8") as f: data = json.load(f)
LoadJson ==
    /\ phase = "is_file"
    /\ IF path_kind = "unreadable"
       THEN /\ trace' = Append(trace, "open")
            /\ Fail(HandlerMessage(command, "PermissionError"))
            /\ UNCHANGED data
       ELSE /\ trace' = trace \o <<"open", "json.load">>
            /\ IF file_content.kind = "undecodable"
               THEN Fail(HandlerMessage(command, "UnicodeDecodeError")) /\ UNCHANGED data
               ELSE IF file_content.kind = "invalid"
               THEN Fail(HandlerMessage(command, "JSONDecodeError")) /\ UNCHANGED data
               ELSE /\ data' = file_content.value
                    /\ phase' = "loaded"
                    /\ UNCHANGED <<console_err, exit_code>>
    /\ UNCHANGED <<annotation_groups, notes, sorted_groups,
                   text, annotations, selected_codes, display,
                   command, path_kind, file_content, file_size, size_str, console_out, ui, web>>

\* view_json: the file, its size and the document in a panel, on console
DisplayJson ==
    /\ phase = "loaded"
    /\ command = "view_json"
    /\ trace' = trace \o <<"stat", "_format_size", "print", "print", "print">>
    /\ size_str' = FormatSize(file_size)
    /\ console_out' = console_out \o
           <<"File: " \o FilePath,
             "Size: " \o FormatSize(file_size),
             [title |-> FileName, kind |-> file_content.kind, json |-> data]>>
    /\ phase' = "returned"
    /\ UNCHANGED <<data, annotation_groups, notes, sorted_groups,
                   text, annotations, selected_codes, display,
                   command, path_kind, file_content, file_size, exit_code, console_err, ui, web>>

\* view: if "notes" not in data: error, exit
ValidateStructure ==
    /\ phase = "loaded"
    /\ command = "view"
    /\ IF InRaises(file_content) THEN Fail(HandlerMessage(command, "TypeError"))
       ELSE IF ~HasNotes(file_content) THEN Fail("Invalid format - missing 'notes' field")
       ELSE phase' = "validated" /\ UNCHANGED <<console_err, exit_code>>
    /\ UNCHANGED <<data, annotation_groups, notes, sorted_groups,
                   text, annotations, selected_codes, display,
                   command, path_kind, file_content, file_size, size_str,
                   console_out, trace, ui, web>>

\* view: viewer = ICD10Viewer(data, file_path), then viewer.run_async() starts;
\* data.get raises AttributeError in __init__ when data is no dict
LaunchViewer ==
    /\ phase = "validated"
    /\ IF file_content.kind # "object"
       THEN /\ trace' = Append(trace, "ICD10Viewer")
            /\ Fail(HandlerMessage(command, "AttributeError"))
            /\ UNCHANGED <<annotation_groups, notes, sorted_groups>>
       ELSE IF ProcessRaises(data, <<>>)
       THEN /\ trace' = trace \o <<"ICD10Viewer", "_process_data">>
            /\ Fail(HandlerMessage(command, "TypeError"))
            /\ UNCHANGED <<annotation_groups, notes, sorted_groups>>
       ELSE /\ trace' = trace \o <<"ICD10Viewer", "_process_data", "run_async">>
            /\ \E built \in {Constructed(data, annotation_groups, notes)} :
                   /\ annotation_groups' = built.annotation_groups
                   /\ notes' = built.notes
                   /\ sorted_groups' = built.sorted_groups
            /\ phase' = "running"
            /\ UNCHANGED <<console_err, exit_code>>
    /\ UNCHANGED <<data, text, annotations, selected_codes, display,
                   command, path_kind, file_content, file_size, size_str, console_out, ui, web>>

\* view: the user quits the viewer and run_async returns
ViewerExit ==
    /\ phase = "running"
    /\ phase' = "returned"
    /\ UNCHANGED <<data, annotation_groups, notes, sorted_groups,
                   text, annotations, selected_codes, display, cli, ui, web>>

CliNext ==
    \/ CheckExists
    \/ CheckIsFile
    \/ LoadJson
    \/ DisplayJson
    \/ ValidateStructure
    \/ LaunchViewer
    \/ ViewerExit

SpecCli == CliInit /\ [][CliNext]_vars

-----------------------------------------------------------------------------
(* The selection of the viewer: add_selected_group, remove_selected_group *)

(* Python sets are objects: set_objects holds every set created so far, in *)
(* order of creation, and selected_groups is the place of the one the      *)
(* attribute is bound to.  The first object is the set() of the class-level *)
(* reactive(set()), which every viewer starts with.                        *)

MaxCalls == 4       \* calls of add_selected_group / remove_selected_group
MaxGroupId == 1     \* the group ids passed to them are 0..MaxGroupId

\* the set that selected_groups is bound to
SelectedValue == set_objects[selected_groups]

\* set(self.selected_groups): one more object, with the same elements
CopySet(objects, ref) == Append(objects, objects[ref])

\* add_selected_group adding to the bound set itself, without a copy
AddInPlace(objects, ref, group_id) ==
    [set_objects |-> [objects EXCEPT ![ref] = @ \cup {group_id}],
     selected_groups |-> ref]

\* add_selected_group(group_id): the objects and the binding after the call
AddSelectedGroup(objects, ref, group_id) ==
    LET copied == CopySet(objects, ref)
        new_selected == Len(copied)
    IN  [set_objects |-> [copied EXCEPT ![new_selected] = @ \cup {group_id}],
         selected_groups |-> new_selected]

\* remove_selected_group(group_id): the objects and the binding after the call
RemoveSelectedGroup(objects, ref, group_id) ==
    LET copied == CopySet(objects, ref)
        new_selected == Len(copied)
    IN  [set_objects |-> [copied EXCEPT ![new_selected] = @ \ {group_id}],
         selected_groups |-> new_selected]

\* a viewer that was constructed and is not mounted
SelectionInit ==
    /\ phase = "built"
    /\ is_mounted = FALSE
    /\ set_objects = <<{}>>
    /\ selected_groups = 1
    /\ checked = <<>>
    /\ note_displays = <<>>
    /\ pending = <<>>
    /\ web_files = <<>>
    /\ selected_file = 0
    /\ selected_note_idx = 0
    /\ selected_annotation = NoSelection
    /\ page = [error |-> "none"]
    /\ NoDocument
    /\ NoRender
    /\ NoCommand

\* viewer.add_selected_group(group_id); watch_selected_groups returns at
\* once, the viewer not being mounted
AddCall(group_id) ==
    /\ Len(trace) < MaxCalls
    /\ \E after \in {AddSelectedGroup(set_objects, selected_groups, group_id)} :
           /\ set_objects' = after.set_objects
           /\ selected_groups' = after.selected_groups
    /\ trace' = Append(trace, [call |-> "add", group_id |-> group_id])
    /\ UNCHANGED <<phase, data, annotation_groups, notes, sorted_groups,
                   text, annotations, selected_codes, display,
                   command, path_kind, file_content, file_size, size_str, exit_code,
                   console_out, console_err,
                   is_mounted, checked, note_displays, pending, web>>

\* viewer.remove_selected_group(group_id), on the viewer that is not mounted
RemoveCall(group_id) ==
    /\ Len(trace) < MaxCalls
    /\ \E after \in {RemoveSelectedGroup(set_objects, selected_groups, group_id)} :
           /\ set_objects' = after.set_objects
           /\ selected_groups' = after.selected_groups
    /\ trace' = Append(trace, [call |-> "remove", group_id |-> group_id])
    /\ UNCHANGED <<phase, data, annotation_groups, notes, sorted_groups,
                   text, annotations, selected_codes, display,
                   command, path_kind, file_content, file_size, size_str, exit_code,
                   console_out, console_err,
                   is_mounted, checked, note_displays, pending, web>>

SelectionNext ==
    \/ \E group_id \in 0..MaxGroupId : AddCall(group_id)
    \/ \E group_id \in 0..MaxGroupId : RemoveCall(group_id)

SpecSelection == SelectionInit /\ [][SelectionNext]_vars

-----------------------------------------------------------------------------
(* The mounted viewer: checkboxes, Checkbox.Changed events, highlighting *)

MaxClicks == 3      \* clicks on checkboxes in one run

\* the set objects that are still referred to: the class-level default and
\* the one selected_groups is bound to
Collected(after) ==
    IF after.selected_groups = 1
    THEN [set_objects |-> <<after.set_objects[1]>>, selected_groups |-> 1]
    ELSE [set_objects |-> <<after.set_objects[1],
                            after.set_objects[after.selected_groups]>>,
          selected_groups |-> 2]

\* the annotations handed to _highlight_text, moved by the note's start_offset
ShiftedAnnotations(note) ==
    [k \in 1..Len(note.annotations) |->
        [f \in DOMAIN note.annotations[k] |->
            IF f \in {"begin", "end"}
            THEN note.annotations[k][f] + note.start_offset
            ELSE note.annotations[k][f]]]

\* the annotations handed to _highlight_text: those of the note, as they are
NoteAnnotations(note) == note.annotations

\* the codes of the selected groups; ids beyond the groups are passed over
SelectedCodes(groups, selected) ==
    {groups[group_id + 1].code : group_id \in {g \in selected : g < Len(groups)}}

\* query_one("#note-text-<note_id>"): the first note widget with that id
QueryNoteText(nts, note_id) ==
    CHOOSE i \in 1..Len(nts) :
        /\ nts[i].note_id = note_id
        /\ \A j \in 1..(i - 1) : nts[j].note_id # note_id

\* _update_text_highlighting: the content of every note widget afterwards
RECURSIVE UpdateTextHighlighting(_, _, _, _, _)
UpdateTextHighlighting(displays, nts, k, groups, selected) ==
    IF k > Len(nts) THEN displays
    ELSE LET note == nts[k]
             text_widget == QueryNoteText(nts, note.note_id)
             updated == Render(note.text, NoteAnnotations(note),
                               SelectedCodes(groups, selected))
         IN  UpdateTextHighlighting([displays EXCEPT ![text_widget] = updated],
                                    nts, k + 1, groups, selected)

\* the loop of watch_selected_groups over the checkboxes: checkbox.value = idx in new_value
UpdateCheckboxes(boxes, new_value) == [k \in 1..Len(boxes) |-> (k - 1) \in new_value]

\* a checkbox whose value changes posts Checkbox.Changed: the events of the
\* checkboxes that differ between before and after, in the order of the loop
RECURSIVE ChangedEvents(_, _, _)
ChangedEvents(before, after, k) ==
    IF k > Len(before) THEN <<>>
    ELSE (IF before[k] # after[k]
          THEN <<[group_id |-> k - 1, value |-> after[k]]>> ELSE <<>>)
         \o ChangedEvents(before, after, k + 1)

\* the documents shown: two notes whose annotations overlap and repeat, a
\* note without annotations, a note with an annotation that has no code
ViewerDocuments ==
    {[hadm_id |-> "1", notes |-> <<
        [text |-> GeneratedText,
         annotations |-> <<[code |-> CodeA, begin |-> 0, end |-> 1],
                           [code |-> CodeB, begin |-> 1, end |-> MaxLen]>>],
        [text |-> GeneratedText,
         annotations |-> <<[code |-> CodeA, begin |-> 0, end |-> MaxLen],
                           [code |-> CodeB, begin |-> 1, end |-> 2]>>]>>],
     [hadm_id |-> "2", notes |-> <<
        [note_id |-> 7, text |-> GeneratedText],
        [note_id |-> 8, text |-> GeneratedText,
         annotations |-> <<[begin |-> 0, end |-> 1],
                           [code |-> CodeA, begin |-> 2, end |-> MaxLen]>>]>>]}

\* the viewer after compose: a checkbox for every group, none checked, and
\* the text of every note in its widget
ViewerInit ==
    /\ phase = "mounted"
    /\ data \in ViewerDocuments
    /\ \E built \in {Constructed(data, <<>>, <<>>)} :
           /\ annotation_groups = built.annotation_groups
           /\ notes = built.notes
           /\ sorted_groups = built.sorted_groups
           /\ checked = [k \in 1..Len(built.sorted_groups) |-> FALSE]
           /\ note_displays = [k \in 1..Len(built.notes) |-> PlainText(built.notes[k].text)]
    /\ is_mounted = TRUE
    /\ set_objects = <<{}>>
    /\ selected_groups = 1
    /\ pending = <<>>
    /\ web_files = <<>>
    /\ selected_file = 0
    /\ selected_note_idx = 0
    /\ selected_annotation = NoSelection
    /\ page = [error |-> "none"]
    /\ NoRender
    /\ NoCommand

\* the user toggles the checkbox of a group: its value changes and
\* Checkbox.Changed is posted
ClickCheckbox(group_id) ==
    /\ is_mounted
    /\ Len(trace) < MaxClicks
    /\ group_id < Len(checked)
    /\ checked' = [checked EXCEPT ![group_id + 1] = ~@]
    /\ pending' = Append(pending, [group_id |-> group_id, value |-> ~checked[group_id + 1]])
    /\ trace' = Append(trace, [call |-> "click", group_id |-> group_id])
    /\ UNCHANGED <<phase, data, annotation_groups, notes, sorted_groups,
                   text, annotations, selected_codes, display,
                   command, path_kind, file_content, file_size, size_str, exit_code,
                   console_out, console_err,
                   is_mounted, set_objects, selected_groups, note_displays, web>>

\* AnnotationItem.on_checkbox_changed for the oldest event: add or remove the
\* group; the assignment to the reactive selected_groups runs
\* watch_selected_groups when the value differs from the one before
OnCheckboxChanged ==
    /\ pending # <<>>
    /\ LET event == Head(pending)
           after == Collected(IF event.value
                              THEN AddSelectedGroup(set_objects, selected_groups,
                                                    event.group_id)
                              ELSE RemoveSelectedGroup(set_objects, selected_groups,
                                                       event.group_id))
           new_value == after.set_objects[after.selected_groups]
           watched == is_mounted /\ new_value # SelectedValue
           boxes == IF watched THEN UpdateCheckboxes(checked, new_value) ELSE checked
       IN  /\ set_objects' = after.set_objects
           /\ selected_groups' = after.selected_groups
           /\ checked' = boxes
           /\ pending' = Tail(pending) \o ChangedEvents(checked, boxes, 1)
           /\ note_displays' =
                 IF watched
                 THEN UpdateTextHighlighting(note_displays, notes, 1,
                                             sorted_groups, new_value)
                 ELSE note_displays
    /\ UNCHANGED <<phase, data, annotation_groups, notes, sorted_groups,
                   text, annotations, selected_codes, display, cli,
                   is_mounted, web>>

ViewerNext ==
    \/ \E group_id \in 0..MaxGroupId + 1 : ClickCheckbox(group_id)
    \/ OnCheckboxChanged

SpecViewer == ViewerInit /\ [][ViewerNext]_vars

-----------------------------------------------------------------------------
(* The web viewer: create_highlighted_text and the reruns of main *)

MaxFiles == 2       \* JSON files in the data directory

\* html.escape(s): & < > " ' are replaced by their entities
HtmlEscape(s) ==
    [k \in 1..Len(s) |->
        CASE s[k] = "&" -> "&amp;"
          [] s[k] = "<" -> "&lt;"
          [] s[k] = ">" -> "&gt;"
          [] s[k] = "\"" -> "&quot;"
          [] s[k] = "'" -> "&#x27;"
          [] OTHER -> s[k]]

\* get_annotation_color: the colours of a code system
GetAnnotationColor(code_system) ==
    CASE code_system = "ICD-10-CM" -> <<"#FFB6C1", "#8B0000">>
      [] code_system = "ICD-10-PCS" -> <<"#90EE90", "#006400">>
      [] OTHER -> <<"#E0E0E0", "#333333">>

\* enumerate(annotations): pairs of the 0-based position and the annotation
Enumerate(anns) == [k \in 1..Len(anns) |-> [orig_idx |-> k - 1, ann |-> anns[k]]]

\* one step of the stable sort by x[1]['begin']
RECURSIVE InsertByAnnBegin(_, _)
InsertByAnnBegin(sorted, x) ==
    IF sorted = <<>> THEN <<x>>
    ELSE IF x.ann.begin < Head(sorted).ann.begin
         THEN <<x>> \o sorted
         ELSE <<Head(sorted)>> \o InsertByAnnBegin(Tail(sorted), x)

\* sorted(enumerate(annotations), key=lambda x: x[1]['begin'])
RECURSIVE SortedAnnotations(_)
SortedAnnotations(pairs) ==
    IF pairs = <<>> THEN <<>>
    ELSE InsertByAnnBegin(SortedAnnotations(SubSeq(pairs, 1, Len(pairs) - 1)),
                          pairs[Len(pairs)])

\* a piece of result_parts: the text it holds before and after html.escape,
\* and for a span its id, its colours and whether it has the selection border
PlainPart(s) ==
    [content |-> s, html |-> HtmlEscape(s), highlighted |-> FALSE,
     span_id |-> None, colors |-> None, is_selected |-> FALSE]

SpanPart(s, orig_idx, colors, is_selected) ==
    [content |-> s, html |-> HtmlEscape(s), highlighted |-> TRUE,
     span_id |-> orig_idx, colors |-> colors, is_selected |-> is_selected]

\* the loop of create_highlighted_text over the sorted annotations
RECURSIVE WebWalk(_, _, _, _, _)
WebWalk(txt, sorted, last_end, result_parts, selected_annotation_idx) ==
    IF sorted = <<>>
    THEN IF last_end < Len(txt)
         THEN Append(result_parts, PlainPart(SliceFrom(txt, last_end)))
         ELSE result_parts
    ELSE LET orig_idx == Head(sorted).orig_idx
             ann == Head(sorted).ann
             begin == ann.begin
             end == ann.end
             before == IF begin > last_end
                       THEN Append(result_parts, PlainPart(Slice(txt, last_end, begin)))
                       ELSE result_parts
             is_selected == /\ selected_annotation_idx # NoSelection
                            /\ orig_idx = selected_annotation_idx
             span == SpanPart(Slice(txt, begin, end), orig_idx,
                              GetAnnotationColor(Get(ann, "code_system", "")),
                              is_selected)
         IN  WebWalk(txt, Tail(sorted), end, Append(before, span),
                     selected_annotation_idx)

\* create_highlighted_text: the pieces inside the <pre> element
CreateHighlightedText(txt, anns, selected_annotation_idx) ==
    IF anns = <<>> THEN <<PlainPart(txt)>>
    ELSE WebWalk(txt, SortedAnnotations(Enumerate(anns)), 0, <<>>,
                 selected_annotation_idx)

\* annotations.index(ann): the 0-based position of the first equal element
IndexOf(anns, ann) ==
    (CHOOSE k \in 1..Len(anns) :
        /\ anns[k] = ann
        /\ \A j \in 1..(k - 1) : anns[j] # ann) - 1

\* the st.button calls of one code system, in the order of the loop
RECURSIVE ButtonCalls(_, _, _, _)
ButtonCalls(anns, i, code_system, prefix) ==
    IF i >= Len(anns) THEN <<>>
    ELSE (IF Get(anns[i + 1], "code_system", None) = code_system
          THEN <<[key |-> <<prefix, IndexOf(anns, anns[i + 1])>>,
                  position |-> i,
                  original_idx |-> IndexOf(anns, anns[i + 1])]>>
          ELSE <<>>)
         \o ButtonCalls(anns, i + 1, code_system, prefix)

\* the st.button calls of column 2: diagnoses, then procedures
AllButtonCalls(anns) ==
    ButtonCalls(anns, 0, "ICD-10-CM", "diag") \o ButtonCalls(anns, 0, "ICD-10-PCS", "proc")

\* the first st.button call whose key was used by an earlier one (0: none)
FirstDuplicate(calls) ==
    LET repeated == {k \in 1..Len(calls) : \E j \in 1..(k - 1) : calls[j].key = calls[k].key}
    IN  IF repeated = {} THEN 0
        ELSE CHOOSE k \in repeated : \A j \in repeated : k <= j

\* the page left by a run of main
Page(error, warning, buttons, clear, details, parts) ==
    [error |-> error, warning |-> warning, buttons |-> buttons, clear |-> clear,
     details |-> details, parts |-> parts]

\* one run of main for the chosen file and note and the selection of the session
Main(files, file, note_idx, selection) ==
    LET file_data == files[file]
        file_notes == Get(file_data, "notes", <<>>)
    IN  IF file_notes = <<>>
        THEN Page("none", TRUE, <<>>, FALSE, None, <<>>)
        ELSE LET selected_note == file_notes[note_idx + 1]
                 anns == Get(selected_note, "annotations", <<>>)
                 calls == AllButtonCalls(anns)
                 duplicate == FirstDuplicate(calls)
             IN  IF duplicate # 0
                 THEN Page("DuplicateWidgetID", FALSE,
                           SubSeq(calls, 1, duplicate - 1), FALSE, None, <<>>)
                 ELSE IF selection # NoSelection /\ selection >= Len(anns)
                 THEN Page("IndexError", FALSE, calls, TRUE, None, <<>>)
                 ELSE Page("none", FALSE, calls, selection # NoSelection,
                           IF selection = NoSelection THEN None ELSE anns[selection + 1],
                           CreateHighlightedText(Get(selected_note, "text", <<>>),
                                                 anns, selection))

WebAnnotation(code, code_system, begin, end) ==
    [code |-> code, code_system |-> code_system, description |-> "first",
     covered_text |-> "t", begin |-> begin, end |-> end]

WebNote(note_id, txt, anns) ==
    [note_id |-> note_id, category |-> "Discharge summary", description |-> "Report",
     text |-> txt, annotations |-> anns]

\* the files of the data directory: notes with two and with one annotation,
\* a note with two annotations of equal fields, a note without annotations
\* whose text needs escaping, a file without notes
WebFiles ==
    {[hadm_id |-> "1", notes |-> <<
        WebNote(1, GeneratedText,
                <<WebAnnotation(CodeA, "ICD-10-CM", 1, MaxLen),
                  WebAnnotation(CodeB, "ICD-10-PCS", 0, 1)>>),
        WebNote(2, GeneratedText,
                <<WebAnnotation(CodeA, "ICD-10-CM", 0, MaxLen)>>)>>],
     [hadm_id |-> "2", notes |-> <<
        WebNote(3, GeneratedText,
                <<WebAnnotation(CodeA, "ICD-10-CM", 0, 1),
                  WebAnnotation(CodeA, "ICD-10-CM", 0, 1),
                  WebAnnotation(CodeB, "ICD-10-PCS", 1, 2)>>),
        WebNote(4, <<"a", "<", "b">>, <<>>)>>],
     [hadm_id |-> "3"]}

\* the data directory: up to MaxFiles different files, in the order of the listing
FileLists ==
    {files \in UNION {[1..n -> WebFiles] : n \in 1..MaxFiles} :
        \A i, j \in 1..Len(files) : i # j => files[i] # files[j]}

NotesOf(file) == Get(web_files[file], "notes", <<>>)

\* the first run: the first file and its first note are chosen, the session
\* state is initialised with no selected annotation
WebInit ==
    /\ phase = "web"
    /\ web_files \in FileLists
    /\ selected_file = 1
    /\ selected_note_idx = 0
    /\ selected_annotation = NoSelection
    /\ page = Main(web_files, 1, 0, NoSelection)
    /\ is_mounted = FALSE
    /\ set_objects = <<{}>>
    /\ selected_groups = 1
    /\ checked = <<>>
    /\ note_displays = <<>>
    /\ pending = <<>>
    /\ NoDocument
    /\ NoRender
    /\ NoCommand

Idle == <<data, annotation_groups, notes, sorted_groups, text, annotations,
          selected_codes, display, command, path_kind, file_content, file_size,
          size_str, exit_code, console_out, console_err, ui>>

\* another file is chosen in the sidebar; the note selectbox is built anew
\* (first note) or, when its options are the same, keeps its value
SelectFile(file) ==
    /\ phase = "web"
    /\ file \in 1..Len(web_files)
    /\ file # selected_file
    /\ selected_file' = file
    /\ \E note_idx \in {0} \cup {n \in {selected_note_idx} : n < Len(NotesOf(file))} :
           /\ selected_note_idx' = note_idx
           /\ page' = Main(web_files, file, note_idx, selected_annotation)
    /\ trace' = <<[call |-> "file"]>>
    /\ UNCHANGED <<phase, web_files, selected_annotation>>
    /\ UNCHANGED Idle

\* another note is chosen in the sidebar
SelectNote(note_idx) ==
    /\ phase = "web"
    /\ note_idx < Len(NotesOf(selected_file))
    /\ note_idx # selected_note_idx
    /\ selected_note_idx' = note_idx
    /\ page' = Main(web_files, selected_file, note_idx, selected_annotation)
    /\ trace' = <<[call |-> "note"]>>
    /\ UNCHANGED <<phase, web_files, selected_file, selected_annotation>>
    /\ UNCHANGED Idle

\* a click on one of the annotation buttons of the page: the run sets
\* session_state.selected_annotation = original_idx and calls st.rerun()
ClickAnnotationButton(b) ==
    /\ phase = "web"
    /\ b \in 1..Len(page.buttons)
    /\ selected_annotation' = page.buttons[b].original_idx
    /\ page' = Main(web_files, selected_file, selected_note_idx,
                    page.buttons[b].original_idx)
    /\ trace' = <<[call |-> "button", position |-> page.buttons[b].position]>>
    /\ UNCHANGED <<phase, web_files, selected_file, selected_note_idx>>
    /\ UNCHANGED Idle

\* a click on 'Clear Selection'
ClickClear ==
    /\ phase = "web"
    /\ page.clear
    /\ selected_annotation' = NoSelection
    /\ page' = Main(web_files, selected_file, selected_note_idx, NoSelection)
    /\ trace' = <<[call |-> "clear"]>>
    /\ UNCHANGED <<phase, web_files, selected_file, selected_note_idx>>
    /\ UNCHANGED Idle

WebNext ==
    \/ \E file \in 1..MaxFiles : SelectFile(file)
    \/ \E note_idx \in 0..(MaxNotes - 1) : SelectNote(note_idx)
    \/ \E b \in 1..MaxDocAnns : ClickAnnotationButton(b)
    \/ ClickClear

SpecWeb == WebInit /\ [][WebNext]_vars

-----------------------------------------------------------------------------
(* What the claims are stated over: the document itself *)

\* the notes of the document
DocNotes == IF "notes" \in DOMAIN data THEN data.notes ELSE <<>>

\* the annotations of the note at 0-based index i
DocAnnotationsOf(i) ==
    IF "annotations" \in DOMAIN DocNotes[i + 1]
    THEN DocNotes[i + 1].annotations ELSE <<>>

\* every (note index, annotation) pair of the first n notes, in encounter order
RECURSIVE Encounters(_)
Encounters(n) ==
    IF n = 0 THEN <<>>
    ELSE Encounters(n - 1) \o
         [k \in 1..Len(DocAnnotationsOf(n - 1)) |-> <<n - 1, DocAnnotationsOf(n - 1)[k]>>]

AllEncounters == Encounters(Len(DocNotes))

\* the code an annotation is grouped under: its code, "" when it has none
KeyOf(annotation) == IF "code" \in DOMAIN annotation THEN annotation.code ELSE <<>>

\* the encounters of one code, in encounter order
EncountersOf(code) ==
    LET HasCode(p) == KeyOf(p[2]) = code
    IN  SelectSeq(AllEncounters, HasCode)

DocKeys == {KeyOf(AllEncounters[i][2]) : i \in 1..Len(AllEncounters)}

RECURSIVE SumCounts(_)
SumCounts(groups) ==
    IF groups = <<>> THEN 0 ELSE Count(Head(groups)) + SumCounts(Tail(groups))

FailsValidation(annotation) ==
    ~(0 <= annotation.begin /\ annotation.begin < annotation.end
      /\ annotation.end <= MaxLen)

-----------------------------------------------------------------------------
(* Claims about build *)

\* C1: the groups of a built document are in strictly ascending lexicographic
\* order of code (so no two share a code), and their counts add up to the
\* number of annotations of the document, those with invalid offsets included.
C1_SortedAndCounted ==
    phase = "built" =>
        /\ \A i, j \in 1..Len(sorted_groups) :
              i < j => StrLess(sorted_groups[i].code, sorted_groups[j].code)
        /\ SumCounts(sorted_groups) = Len(AllEncounters)

\* a built document whose dict order is not the sorted order, with a code that
\* is a prefix of another and an annotation whose offsets are invalid
C1_Witness ==
    /\ phase = "built"
    /\ Len(sorted_groups) = 3
    /\ annotation_groups # sorted_groups
    /\ \E i, j \in 1..3 : sorted_groups[i].code = CodeA /\ sorted_groups[j].code = CodeAB
    /\ \E i \in 1..Len(AllEncounters) : FailsValidation(AllEncounters[i][2])

\* C6: build yields exactly one group per distinct code of the document, and a
\* group's instances are all and only the (note index, annotation) pairs of
\* its code, in encounter order.
C6_OneGroupPerCode ==
    phase = "built" =>
        /\ {sorted_groups[i].code : i \in 1..Len(sorted_groups)} = DocKeys
        /\ Len(sorted_groups) = Cardinality(DocKeys)
        /\ \A i \in 1..Len(sorted_groups) :
              sorted_groups[i].instances = EncountersOf(sorted_groups[i].code)

\* the same code in two different notes: one group, count 2, both instances
C6_Witness ==
    /\ phase = "built"
    /\ \E i \in 1..Len(sorted_groups) :
          /\ sorted_groups[i].code = CodeA
          /\ Count(sorted_groups[i]) = 2
          /\ sorted_groups[i].instances[1][1] = 0
          /\ sorted_groups[i].instances[2][1] = 1
          /\ sorted_groups[i].instances[1][2] # sorted_groups[i].instances[2][2]
    /\ Len(sorted_groups) = 2

\* C7: a group's code_system and description are those of the first
\* annotation of its code in encounter order, whatever later ones carry.
C7_FirstSeenWins ==
    phase = "built" =>
        \A i \in 1..Len(sorted_groups) :
            LET first == EncountersOf(sorted_groups[i].code)[1][2]
            IN  /\ sorted_groups[i].code_system =
                      (IF "code_system" \in DOMAIN first THEN first.code_system ELSE "")
                /\ sorted_groups[i].description =
                      (IF "description" \in DOMAIN first THEN first.description ELSE "")

\* a group whose second instance disagrees with the first on both fields
C7_Witness ==
    /\ phase = "built"
    /\ \E i \in 1..Len(sorted_groups) :
          LET g == sorted_groups[i]
          IN  /\ Count(g) >= 2
              /\ g.instances[2][2].code_system # g.code_system
              /\ g.instances[2][2].description # g.description
              /\ g.instances[1][2].description = g.description

\* C8: the annotations whose code is "" or absent all end up in one group of
\* key "", which holds them all and only them; there is no other group for them.
C8_EmptyCodeGroup ==
    phase = "built" =>
        LET uncoded == {i \in 1..Len(AllEncounters) :
                           \/ "code" \notin DOMAIN AllEncounters[i][2]
                           \/ AllEncounters[i][2].code = <<>>}
            keyed == {i \in 1..Len(sorted_groups) : sorted_groups[i].code = <<>>}
        IN  /\ Cardinality(keyed) = (IF uncoded = {} THEN 0 ELSE 1)
            /\ \A i \in keyed : Count(sorted_groups[i]) = Cardinality(uncoded)
            /\ \A i \in 1..Len(sorted_groups) :
                  i \notin keyed =>
                      \A k \in 1..Count(sorted_groups[i]) :
                          /\ "code" \in DOMAIN sorted_groups[i].instances[k][2]
                          /\ sorted_groups[i].instances[k][2].code # <<>>
            /\ SumCounts(sorted_groups) = Len(AllEncounters)

\* one annotation with code "" and one without code, in the one group ""
C8_Witness ==
    /\ phase = "built"
    /\ \E i \in 1..Len(sorted_groups) :
          /\ sorted_groups[i].code = <<>>
          /\ Count(sorted_groups[i]) = 2
          /\ \E k, l \in 1..2 :
                /\ "code" \notin DOMAIN sorted_groups[i].instances[k][2]
                /\ "code" \in DOMAIN sorted_groups[i].instances[l][2]
    /\ Len(sorted_groups) = 2

-----------------------------------------------------------------------------
(* What the claims are stated over: the rendered note's annotations *)

AnnIndices == 1..Len(annotations)

\* the annotation's code is one of the selected codes
Active(i) == "code" \in DOMAIN annotations[i] /\ annotations[i].code \in selected_codes

BeginOf(i) == IF "begin" \in DOMAIN annotations[i] THEN annotations[i].begin ELSE 0
EndOf(i) == IF "end" \in DOMAIN annotations[i] THEN annotations[i].end ELSE 0

\* the offset invariant of the data model: 0 <= begin < end <= len(text)
ValidSpan(i) == 0 <= BeginOf(i) /\ BeginOf(i) < EndOf(i) /\ EndOf(i) <= Len(text)

\* the annotations that are to be highlighted
Surviving == {i \in AnnIndices : Active(i) /\ ValidSpan(i)}

NonOverlapping ==
    \A i, j \in Surviving :
        i # j => (EndOf(i) <= BeginOf(j) \/ EndOf(j) <= BeginOf(i))

\* text[begin:end] of a valid span
Covered(i) == SubSeq(text, BeginOf(i) + 1, EndOf(i))

RECURSIVE Concat(_)
Concat(segments) ==
    IF segments = <<>> THEN <<>> ELSE Head(segments).content \o Concat(Tail(segments))

IsHighlighted(segment) == segment.highlighted
Highlights == SelectSeq(display, IsHighlighted)

Plain(content) == [content |-> content, highlighted |-> FALSE]
Highlighted(content) == [content |-> content, highlighted |-> TRUE]

\* the annotations without those whose offsets are invalid
IsValidAnnotation(a) ==
    LET b == IF "begin" \in DOMAIN a THEN a.begin ELSE 0
        e == IF "end" \in DOMAIN a THEN a.end ELSE 0
    IN  0 <= b /\ b < e /\ e <= Len(text)
ValidAnnotations == SelectSeq(annotations, IsValidAnnotation)

-----------------------------------------------------------------------------
(* Claims about render *)

\* C2: when the selection is not empty and the annotations that are active
\* and valid do not overlap pairwise, the contents of the rendered segments,
\* concatenated in order, are the text.
C2_RoundTrip ==
    (phase = "rendered" /\ selected_codes # {} /\ NonOverlapping) =>
        Concat(display) = text

\* two disjoint surviving spans with text before, between or after them
C2_Witness ==
    /\ phase = "rendered"
    /\ selected_codes # {}
    /\ Cardinality(Surviving) = 2
    /\ NonOverlapping
    /\ Len(display) >= 3

\* C3: an annotation with begin >= end, begin < 0 or end > len(text) gives no
\* highlighted segment, active or not: every highlighted segment is the
\* covered text of a surviving annotation, there are as many of them as
\* surviving annotations, and the output is that of the same call without the
\* invalid annotations (nothing of them is left, clamped or otherwise).
C3_InvalidDropped ==
    phase = "rendered" =>
        /\ Len(Highlights) = Cardinality(Surviving)
        /\ \A k \in 1..Len(Highlights) :
              \E i \in Surviving : Highlights[k].content = Covered(i)
        /\ display = Render(text, ValidAnnotations, selected_codes)

\* an active annotation that reaches past the end of the text, dropped beside
\* one that survives
C3_Witness ==
    /\ phase = "rendered"
    /\ Cardinality(Surviving) = 1
    /\ \E i \in AnnIndices :
          /\ Active(i)
          /\ 0 <= BeginOf(i) /\ BeginOf(i) < Len(text) /\ EndOf(i) > Len(text)
    /\ Len(Highlights) = 1

\* C4: under the empty selection a note is rendered as exactly one segment,
\* unhighlighted, whose content is the whole text, also for the empty text.
C4_EmptySelection ==
    (phase = "rendered" /\ selected_codes = {}) => display = <<Plain(text)>>

\* the empty text with annotations, rendered under the empty selection
C4_Witness ==
    /\ phase = "rendered"
    /\ selected_codes = {}
    /\ text = <<>>
    /\ Len(annotations) = MaxSpans
    /\ display = <<Plain(<<>>)>>

\* C5: the highlighted segments are, in order, the covered texts of the
\* surviving annotations taken in ascending order of begin, one segment per
\* surviving annotation, overlapping or not.
C5_OneHighlightPerSpan ==
    (phase = "rendered" /\ selected_codes # {}) =>
        \E order \in [1..Cardinality(Surviving) -> Surviving] :
            /\ \A k, l \in DOMAIN order : k # l => order[k] # order[l]
            /\ \A k, l \in DOMAIN order : k < l => BeginOf(order[k]) <= BeginOf(order[l])
            /\ Len(Highlights) = Cardinality(Surviving)
            /\ \A k \in DOMAIN order : Highlights[k].content = Covered(order[k])

\* two surviving spans that overlap: both are emitted, characters twice
C5_Witness ==
    /\ phase = "rendered"
    /\ Cardinality(Surviving) = 2
    /\ ~NonOverlapping
    /\ Len(Highlights) = 2
    /\ Len(Concat(display)) > Len(text)
    /\ \E i, j \in Surviving : BeginOf(i) < BeginOf(j) /\ BeginOf(j) < EndOf(i)

\* C9 as stated: for the text "The patient has diabetes.", the one annotation
\* E11.9 at 17..25 and the selection {E11.9}, render returns the three segments
\* "The patient has " (plain), "diabetes" (highlighted), "." (plain).
C9_AsStated ==
    (/\ phase = "rendered"
     /\ text = ScenarioText
     /\ annotations = <<ScenarioAnnotation>>
     /\ selected_codes = {ScenarioCode}) =>
        display = <<Plain(<<"T", "h", "e", " ", "p", "a", "t", "i", "e", "n", "t", " ",
                            "h", "a", "s", " ">>),
                    Highlighted(<<"d", "i", "a", "b", "e", "t", "e", "s">>),
                    Plain(<<".">>)>>

\* C9, amended: the text has 25 characters and "diabetes" is at 16..24.  For
\* the annotation at 17..25 render returns the two segments "The patient has d"
\* (plain) and "iabetes." (highlighted); the three segments of the scenario are
\* returned for the annotation at 16..24.
C9_Scenario ==
    (/\ phase = "rendered"
     /\ text = ScenarioText
     /\ selected_codes = {ScenarioCode}) =>
        /\ Len(text) = 25
        /\ annotations = <<ScenarioAnnotation>> =>
              display = <<Plain(<<"T", "h", "e", " ", "p", "a", "t", "i", "e", "n", "t",
                                  " ", "h", "a", "s", " ", "d">>),
                          Highlighted(<<"i", "a", "b", "e", "t", "e", "s", ".">>)>>
        /\ annotations = <<DiabetesAnnotation>> =>
              display = <<Plain(<<"T", "h", "e", " ", "p", "a", "t", "i", "e", "n", "t",
                                  " ", "h", "a", "s", " ">>),
                          Highlighted(<<"d", "i", "a", "b", "e", "t", "e", "s">>),
                          Plain(<<".">>)>>

\* the scenario's call, rendered
C9_Witness ==
    /\ phase = "rendered"
    /\ text = ScenarioText
    /\ annotations = <<ScenarioAnnotation>>
    /\ selected_codes = {ScenarioCode}
    /\ Len(display) = 2

\* C10 as stated: when some annotation is active and every active annotation
\* has invalid offsets, the output is exactly one unhighlighted segment whose
\* content is the full text.
C10_AsStated ==
    (/\ phase = "rendered"
     /\ \E i \in AnnIndices : Active(i)
     /\ Surviving = {}) =>
        display = <<Plain(text)>>

\* C10, amended: when every active annotation has invalid offsets, the output
\* of a non-empty text is exactly one unhighlighted segment whose content is
\* the full text, and the output of the empty text has no segment.
C10_AllInvalid ==
    (/\ phase = "rendered"
     /\ selected_codes # {}
     /\ Surviving = {}) =>
        display = (IF text = <<>> THEN <<>> ELSE <<Plain(text)>>)

\* the scenario's annotation at 5..3, active and dropped
C10_Witness ==
    /\ phase = "rendered"
    /\ text = ScenarioText
    /\ annotations = <<ReversedAnnotation>>
    /\ Active(1)
    /\ display = <<Plain(ScenarioText)>>

-----------------------------------------------------------------------------
(* The order in which the surviving annotations are to be processed *)

\* the place of a surviving annotation: by begin, then by position in the input
Rank(i) ==
    Cardinality({j \in Surviving :
                    \/ BeginOf(j) < BeginOf(i)
                    \/ (BeginOf(j) = BeginOf(i) /\ j < i)}) + 1

\* the surviving annotation at place k
Order(k) == CHOOSE i \in Surviving : Rank(i) = k

\* the positions of the highlighted segments in the output
HighlightPositions ==
    LET IsHighlightedAt(k) == display[k].highlighted
    IN  SelectSeq([k \in 1..Len(display) |-> k], IsHighlightedAt)

NoEmptyPlain ==
    \A k \in 1..Len(display) : ~display[k].highlighted => display[k].content # <<>>

NoLeadingPlain ==
    (\E i \in Surviving : BeginOf(i) = 0) => display[1].highlighted

NoPlainBetweenAdjacent ==
    \A k \in 1..(Cardinality(Surviving) - 1) :
        BeginOf(Order(k + 1)) = EndOf(Order(k)) =>
            HighlightPositions[k + 1] = HighlightPositions[k] + 1

\* C11 as stated: _highlight_text emits no empty unhighlighted segment; a
\* surviving span with begin = 0 gives no leading unhighlighted segment, a
\* surviving span with end = len(text) gives no trailing unhighlighted
\* segment, and two adjacent spans give no unhighlighted segment between them.
C11_AsStated ==
    (phase = "rendered" /\ selected_codes # {}) =>
        /\ NoEmptyPlain
        /\ NoLeadingPlain
        /\ (\E i \in Surviving : EndOf(i) = Len(text)) =>
              display[Len(display)].highlighted
        /\ NoPlainBetweenAdjacent

\* C11, amended: as stated, but the trailing part holds for the span that is
\* processed last (the last by begin, so for any span ending the text when
\* the surviving spans do not overlap): a span that ends the text and has a
\* later-starting span nested in it is followed by the text after that span.
C11_NoEmptyPlain ==
    (phase = "rendered" /\ selected_codes # {}) =>
        /\ NoEmptyPlain
        /\ NoLeadingPlain
        /\ (Surviving # {} /\ EndOf(Order(Cardinality(Surviving))) = Len(text)) =>
              display[Len(display)].highlighted
        /\ (NonOverlapping /\ \E i \in Surviving : EndOf(i) = Len(text)) =>
              display[Len(display)].highlighted
        /\ NoPlainBetweenAdjacent

\* two adjacent spans that cover the text: two highlighted segments, no other
C11_Witness ==
    /\ phase = "rendered"
    /\ Cardinality(Surviving) = 2
    /\ BeginOf(Order(1)) = 0
    /\ EndOf(Order(1)) = BeginOf(Order(2))
    /\ EndOf(Order(2)) = Len(text)
    /\ Len(display) = 2

\* C13: the number of rendered segments is at most twice the number of
\* surviving annotations plus one.
C13_SegmentBound ==
    phase = "rendered" => Len(display) <= 2 * Cardinality(Surviving) + 1

\* a span inside the text: plain, highlighted, plain, the bound reached
C13_Witness ==
    /\ phase = "rendered"
    /\ Cardinality(Surviving) = 1
    /\ Len(annotations) = 2
    /\ Len(display) = 3

\* C14: the highlighted segments follow the surviving annotations in ascending
\* order of begin, those of equal begin in the order of the input list.
C14_StableOrder ==
    (phase = "rendered" /\ selected_codes # {}) =>
        /\ Len(Highlights) = Cardinality(Surviving)
        /\ \A k \in 1..Len(Highlights) : Highlights[k].content = Covered(Order(k))

\* two surviving spans of equal begin, the longer first in the input and in
\* the output
C14_Witness ==
    /\ phase = "rendered"
    /\ Surviving = {1, 2}
    /\ BeginOf(1) = BeginOf(2)
    /\ EndOf(1) > EndOf(2)
    /\ Highlights = <<Highlighted(Covered(1)), Highlighted(Covered(2))>>

-----------------------------------------------------------------------------
(* Claims about build on malformed and repeated input *)

\* C15: build never ends in an exception, whatever the document; the phase
\* "error" is where an exception of the construction of the viewer ends.
C15_NeverRaises == phase # "error"

\* what a field of a dict is when it is there, and the given value when not
FieldOr(d, key, missing) == IF key \in DOMAIN d THEN d[key] ELSE missing

\* the fields of the built notes and groups, with the given value for a
\* missing note category and "" / [] for every other missing field
DefaultsAre(category) ==
    /\ Len(notes) = Len(DocNotes)
    /\ \A i \in 1..Len(notes) :
          /\ notes[i].category = FieldOr(DocNotes[i], "category", category)
          /\ notes[i].description = FieldOr(DocNotes[i], "description", "")
          /\ notes[i].text = FieldOr(DocNotes[i], "text", <<>>)
          /\ notes[i].annotations = FieldOr(DocNotes[i], "annotations", <<>>)
    /\ \A i \in 1..Len(sorted_groups) :
          LET g == sorted_groups[i]
              first == g.instances[1][2]
          IN  /\ g.code = FieldOr(first, "code", <<>>)
              /\ g.code_system = FieldOr(first, "code_system", "")
              /\ g.description = FieldOr(first, "description", "")
              /\ \A k \in 1..Count(g) : FieldOr(g.instances[k][2], "code", <<>>) = g.code

-----------------------------------------------------------------------------
(* Claims about _format_size *)

\* arithmetic on sizes in digits of base 1024, lowest first

\* digits * m + c, every digit of the result below the base
RECURSIVE TimesPlus(_, _, _)
TimesPlus(digits, m, c) ==
    IF digits = <<>>
    THEN IF c = 0 THEN <<>> ELSE <<c % Base>> \o TimesPlus(<<>>, m, c \div Base)
    ELSE LET x == Head(digits) * m + c
         IN  <<x % Base>> \o TimesPlus(Tail(digits), m, x \div Base)

RECURSIVE SumDigits(_, _, _)
SumDigits(a, b, c) ==
    IF a = <<>> /\ b = <<>> THEN (IF c = 0 THEN <<>> ELSE <<c>>)
    ELSE LET x == (IF a = <<>> THEN 0 ELSE Head(a)) + (IF b = <<>> THEN 0 ELSE Head(b)) + c
         IN  <<x % Base>> \o SumDigits(IF a = <<>> THEN a ELSE Tail(a),
                                        IF b = <<>> THEN b ELSE Tail(b), x \div Base)

Padded(a, len) == a \o [i \in 1..(len - Len(a)) |-> 0]

\* a <= b, for digits below the base
NumLeq(a, b) ==
    LET len == Max(Len(a), Len(b))
        x == Padded(a, len)
        y == Padded(b, len)
    IN  \/ x = y
        \/ \E i \in 1..len : x[i] < y[i] /\ \A j \in (i + 1)..len : x[j] = y[j]

NumLess(a, b) == ~NumLeq(b, a)

\* digits * 1024^k
Shifted(digits, k) == [i \in 1..k |-> 0] \o digits

\* 1024^k
Power(k) == Shifted(<<1>>, k)

UnitNames == <<"B", "KB", "MB", "GB", "TB">>

\* the exponent of the unit that the thresholds on n select
UnitExponent(n) ==
    LET size == TimesPlus(n, 1, 0)
    IN  IF NumLess(size, Power(1)) THEN 0
        ELSE IF NumLess(size, Power(2)) THEN 1
        ELSE IF NumLess(size, Power(3)) THEN 2
        ELSE IF NumLess(size, Power(4)) THEN 3
        ELSE 4

\* the text of h hundredths of a unit
Shown(h, unit) ==
    ToString(h \div 100) \o "." \o
    (IF h % 100 < 10 THEN "0" ELSE "") \o ToString(h % 100) \o " " \o unit

\* h hundredths are n / 1024^k to two decimals: | h * 1024^k - 100 * n | is at
\* most half of 1024^k
TwoDecimalsOf(h, n, k) ==
    LET shown == Shifted(TimesPlus(<<h>>, 1, 0), k)
        exact == TimesPlus(n, 100, 0)
        half == IF k = 0 THEN <<>> ELSE Shifted(<<Base \div 2>>, k - 1)
    IN  /\ NumLeq(shown, SumDigits(exact, half, 0))
        /\ NumLeq(exact, SumDigits(shown, half, 0))

\* the integer part of n / 1024^k
WholeOf(n, k) == IntValue(SubSeq(n, k + 1, Len(n)))

\* C20: _format_size shows n in the unit that the thresholds select (B below
\* 1024, KB below 1024^2, MB below 1024^3, GB below 1024^4, TB from there
\* on), the number shown being n / 1024^k to two decimals; the sizes of the
\* tests read '100.00 B', '1.00 KB', '1.50 KB', '1.00 MB', '1.00 GB'.
C20_UnitAndNumber ==
    phase = "sized" =>
        LET k == UnitExponent(file_size)
            whole == WholeOf(file_size, k)
        IN  /\ \E h \in (100 * whole)..(100 * whole + 100) :
                  /\ size_str = Shown(h, UnitNames[k + 1])
                  /\ TwoDecimalsOf(h, file_size, k)
            /\ file_size = SizeOf(100) => size_str = "100.00 B"
            /\ file_size = SizeOf(1024) => size_str = "1.00 KB"
            /\ file_size = SizeOf(1536) => size_str = "1.50 KB"
            /\ file_size = SizeOf(1024 * 1024) => size_str = "1.00 MB"
            /\ file_size = SizeOf(1024 * 1024 * 1024) => size_str = "1.00 GB"

\* 1024^2 - 1 bytes are shown in KB, as 1024.00
C20_Witness ==
    /\ phase = "sized"
    /\ file_size = SizeOf(1024 * 1024 - 1)
    /\ UnitExponent(file_size) = 1
    /\ size_str = "1024.00 KB"

-----------------------------------------------------------------------------
(* Claims about the commands *)

\* the calls made so far
Events == {trace[i] : i \in 1..Len(trace)}

\* the command is over: it called sys.exit or it returned
Ended == phase \in {"exited", "returned"}

\* the file was read and its content parsed to a JSON value
Parsed == "json.load" \in Events /\ file_content.kind \notin {"undecodable", "invalid"}

\* the parsed document has a field 'notes'
HasNotesField == file_content.kind = "object" /\ "notes" \in DOMAIN file_content.value

\* the command ended with sys.exit(1) and one message on the error console
ExitedWithError ==
    /\ phase = "exited"
    /\ exit_code = <<1>>
    /\ Len(console_err) = 1

\* C18 as stated: view rejects a parsed document without a 'notes' field with
\* an error and exit code 1 before the viewer is constructed, build never
\* being invoked on it; a missing path or a path that is no file exits with
\* code 1 before the file is read.
C18_AsStated ==
    command = "view" =>
        /\ (Parsed /\ ~HasNotesField) =>
              /\ "ICD10Viewer" \notin Events
              /\ "_process_data" \notin Events
              /\ phase \in {"loaded", "exited"}
              /\ Ended => ExitedWithError
        /\ path_kind \in {"missing", "directory"} =>
              /\ "open" \notin Events
              /\ phase \in {"start", "exists", "exited"}
              /\ Ended => ExitedWithError

\* view_json ended with this message on the error console and nothing on the
\* standard console, after exactly these calls
EndedWith(message, calls) ==
    /\ ExitedWithError
    /\ console_err = <<message>>
    /\ console_out = <<>>
    /\ trace = calls

\* C19: view_json ends with exit code 1, a message on the error console and
\* nothing on the standard console when the path does not exist ('File not
\* found'), else when it is no regular file ('Not a file'), else when the
\* content is no valid JSON ('Invalid JSON'), the checks being made in this
\* order; for a file with valid JSON it prints the file name, the size and
\* the content and does not exit with an error.  No run stops before its end.
C19_ViewJson ==
    command = "view_json" =>
        /\ ~Ended => ENABLED CliNext
        /\ Ended =>
              /\ path_kind = "missing" =>
                    EndedWith("File not found", <<"exists">>)
              /\ path_kind = "directory" =>
                    EndedWith("Not a file", <<"exists", "is_file">>)
              /\ (path_kind = "file" /\ file_content.kind = "invalid") =>
                    EndedWith("Invalid JSON in file",
                              <<"exists", "is_file", "open", "json.load">>)
              /\ (path_kind = "file"
                  /\ file_content.kind \notin {"invalid", "undecodable"}) =>
                    /\ phase = "returned"
                    /\ exit_code = <<>>
                    /\ console_err = <<>>
                    /\ Len(console_out) = 3
                    /\ console_out[1] = "File: " \o FilePath
                    /\ console_out[2] = "Size: " \o size_str
                    /\ size_str = FormatSize(file_size)
                    /\ console_out[3].title = FileName
                    /\ console_out[3].json = file_content.value
              /\ phase = "exited" => (exit_code = <<1>> /\ console_out = <<>>)

\* a file that is no JSON: rejected after the two checks of the path and the
\* read, before anything is printed
C19_Witness ==
    /\ command = "view_json"
    /\ phase = "exited"
    /\ path_kind = "file"
    /\ file_content.kind = "invalid"
    /\ console_err = <<"Invalid JSON in file">>
    /\ console_out = <<>>
    /\ trace = <<"exists", "is_file", "open", "json.load">>

-----------------------------------------------------------------------------
(* Claims about the positions of the rendered segments *)

\* how many of the first d segments are highlighted
HighlightsUpTo(d) == Cardinality({k \in 1..d : display[k].highlighted})

\* where segment d ends in the text: a highlighted segment where its
\* annotation ends, an unhighlighted one where the next highlighted
\* annotation begins, or with the text when none follows
SegEnd(d) ==
    IF display[d].highlighted THEN EndOf(Order(HighlightsUpTo(d)))
    ELSE IF HighlightsUpTo(d) < Cardinality(Surviving)
         THEN BeginOf(Order(HighlightsUpTo(d) + 1))
         ELSE Len(text)

\* where segment d begins in the text
SegStart(d) == SegEnd(d) - Len(display[d].content)

\* the character positions of segment d
SegPositions(d) == SegStart(d)..(SegEnd(d) - 1)

\* every segment is the stretch of the text between its two positions
SegmentsArePartsOfText ==
    \A d \in 1..Len(display) :
        /\ SegStart(d) >= 0
        /\ display[d].content = SubSeq(text, SegStart(d) + 1, SegEnd(d))

InsideSpan(p, i) == BeginOf(i) <= p /\ p < EndOf(i)

PlainSegments == {d \in 1..Len(display) : ~display[d].highlighted}

\* C23 as stated: no unhighlighted segment of _highlight_text contains a
\* character position that lies inside a surviving span, also when spans
\* overlap or are nested.
C23_AsStated ==
    (phase = "rendered" /\ selected_codes # {}) =>
        \A d \in PlainSegments : \A p \in SegPositions(d) :
            \A i \in Surviving : ~InsideSpan(p, i)

\* C23, amended: an unhighlighted segment contains no position of the span
\* highlighted just before it nor of the span highlighted just after it, and
\* no position of any surviving span when the surviving spans do not overlap.
C23_OutsideNeighbours ==
    (phase = "rendered" /\ selected_codes # {}) =>
        /\ SegmentsArePartsOfText
        /\ \A d \in PlainSegments : \A p \in SegPositions(d) :
              /\ HighlightsUpTo(d) >= 1 => ~InsideSpan(p, Order(HighlightsUpTo(d)))
              /\ HighlightsUpTo(d) < Cardinality(Surviving) =>
                    ~InsideSpan(p, Order(HighlightsUpTo(d) + 1))
              /\ NonOverlapping => \A i \in Surviving : ~InsideSpan(p, i)

\* a span nested in another one, with unhighlighted text after it
C23_Witness ==
    /\ phase = "rendered"
    /\ selected_codes # {}
    /\ \E i, j \in Surviving :
          i # j /\ BeginOf(i) <= BeginOf(j) /\ EndOf(j) < EndOf(i)
    /\ ~display[Len(display)].highlighted
    /\ \E d \in PlainSegments : \E p \in SegPositions(d) :
          \E i \in Surviving : InsideSpan(p, i)

\* the positions that the segments before segment d contain
CoveredBefore(d) == UNION {SegPositions(k) : k \in 1..(d - 1)}

\* the positions that segment d is the first to contain
NewPositions(d) == SegPositions(d) \ CoveredBefore(d)

\* C24: with a selection that is not empty, every character position of the
\* text is in a segment of the output, the segments that bring positions not
\* seen before bring them in ascending order, and the output, concatenated,
\* is not shorter than the text.
C24_Coverage ==
    (phase = "rendered" /\ selected_codes # {}) =>
        /\ SegmentsArePartsOfText
        /\ CoveredBefore(Len(display) + 1) = 0..(Len(text) - 1)
        /\ \A d1, d2 \in 1..Len(display) :
              d1 < d2 => \A p \in NewPositions(d1), q \in NewPositions(d2) : p < q
        /\ Len(Concat(display)) >= Len(text)

\* overlapping spans: the output is longer than the text
C24_Witness ==
    /\ phase = "rendered"
    /\ selected_codes # {}
    /\ ~NonOverlapping
    /\ Len(Concat(display)) > Len(text)
    /\ CoveredBefore(Len(display) + 1) = 0..(Len(text) - 1)
    /\ \E d \in PlainSegments : NewPositions(d) # {}

-----------------------------------------------------------------------------
(* Claims about the selection *)

\* the ids whose most recent call in the trace is add
LastAdded ==
    {g \in 0..MaxGroupId :
        \E i \in 1..Len(trace) :
            /\ trace[i] = [call |-> "add", group_id |-> g]
            /\ \A j \in (i + 1)..Len(trace) : trace[j].group_id # g}

\* the call that the step makes
StepCall == trace'[Len(trace')]

\* C27: after any sequence of add_selected_group and remove_selected_group
\* calls selected_groups is the set of the ids whose most recent call was
\* add; adding an id that is present and removing one that is absent leave
\* its value as it was; every call binds a set object that did not exist
\* before and changes none that did, so that the class-level default set
\* stays empty.
C27_FreshSets ==
    /\ [](phase = "built" => (SelectedValue = LastAdded /\ set_objects[1] = {}))
    /\ [][(phase = "built" /\ trace' # trace) =>
            /\ selected_groups' > Len(set_objects)
            /\ selected_groups' = Len(set_objects')
            /\ \A i \in 1..Len(set_objects) : set_objects'[i] = set_objects[i]
            /\ (StepCall.call = "add" /\ StepCall.group_id \in SelectedValue) =>
                  SelectedValue' = SelectedValue
            /\ (StepCall.call = "remove" /\ StepCall.group_id \notin SelectedValue) =>
                  SelectedValue' = SelectedValue]_vars

\* an id added twice and another one removed although absent: four set
\* objects, the first still empty
C27_Witness ==
    /\ phase = "built"
    /\ trace = <<[call |-> "add", group_id |-> 0], [call |-> "add", group_id |-> 0],
                 [call |-> "remove", group_id |-> 1]>>
    /\ set_objects = <<{}, {0}, {0}, {0}>>
    /\ selected_groups = 4

-----------------------------------------------------------------------------
(* Claims about the mounted viewer *)

\* the groups whose checkbox is checked
CheckedGroups == {g \in 0..(Len(checked) - 1) : checked[g + 1]}

\* the codes of the selected groups
CodesOfSelection == {sorted_groups[g + 1].code : g \in SelectedValue}

\* what note k of the document shows for these codes: the rendering of its
\* own text and annotations, the plain text when no code is given
RenderingOfNote(k, codes) ==
    LET note == DocNotes[k]
        own_text == IF "text" \in DOMAIN note THEN note.text ELSE <<>>
        own_annotations == IF "annotations" \in DOMAIN note THEN note.annotations ELSE <<>>
    IN  IF codes = {} THEN <<[content |-> own_text, highlighted |-> FALSE]>>
        ELSE HighlightText(own_text, own_annotations, codes)

\* C21: in the mounted viewer, once the checkbox events are handled,
\* selected_groups is the set of the groups whose checkbox is checked; every
\* note shows the rendering of its own text and annotations (offsets within
\* the note, not moved by start_offset) for the codes of the selected
\* groups, the plain text when none is selected.
C21_SelectionShown ==
    phase = "mounted" =>
        /\ pending = <<>> => SelectedValue = CheckedGroups
        /\ SelectedValue \subseteq 0..(Len(sorted_groups) - 1)
        /\ Len(note_displays) = Len(DocNotes)
        /\ \A k \in 1..Len(DocNotes) :
              note_displays[k] = RenderingOfNote(k, CodesOfSelection)

\* both groups checked one after the other: the second note, which starts
\* at offset MaxLen of the combined text, shows its two overlapping spans
C21_Witness ==
    /\ phase = "mounted"
    /\ pending = <<>>
    /\ Len(trace) = 2
    /\ SelectedValue = {0, 1}
    /\ CheckedGroups = {0, 1}
    /\ notes[2].start_offset = MaxLen
    /\ Len(note_displays[2]) >= 2
    /\ note_displays[2][1] = [content |-> GeneratedText, highlighted |-> TRUE]
    /\ note_displays[2][2].highlighted

-----------------------------------------------------------------------------
(* Claims about the web viewer *)

\* the annotation list of the note the page shows
CurrentAnnotations ==
    IF NotesOf(selected_file) = <<>> THEN <<>>
    ELSE Get(NotesOf(selected_file)[selected_note_idx + 1], "annotations", <<>>)

\* C22: in the web viewer, after any sequence of file selections, note
\* selections, annotation-button clicks and 'Clear Selection' clicks,
\* session_state.selected_annotation is None or a valid index into the
\* annotation list of the note shown, so annotations[selected_annotation]
\* never fails.
C22_AsStated ==
    phase = "web" =>
        /\ \/ selected_annotation = NoSelection
           \/ selected_annotation \in 0..(Len(CurrentAnnotations) - 1)
        /\ page.error # "IndexError"

\* the spans of the page that carry the selection border
BorderedSpans == {k \in 1..Len(page.parts) : page.parts[k].is_selected}

\* C26: in the web viewer, clicking the button of the annotation at position
\* i of the note's annotation list sets selected_annotation to i, for every
\* i, also when two annotations of the list have equal fields: every
\* annotation with a code system of ICD-10 has its button, and after the
\* click the span with the selection border is the one with id annotation-i.
C26_AsStated ==
    phase = "web" =>
        /\ page.warning = FALSE =>
              \A i \in 0..(Len(CurrentAnnotations) - 1) :
                  CurrentAnnotations[i + 1].code_system \in {"ICD-10-CM", "ICD-10-PCS"}
                      => \E b \in 1..Len(page.buttons) : page.buttons[b].position = i
        /\ \A b \in 1..Len(page.buttons) :
              page.buttons[b].original_idx = page.buttons[b].position
        /\ (trace # <<>> /\ trace[1].call = "button") =>
              /\ selected_annotation = trace[1].position
              /\ BorderedSpans # {}
              /\ \A k \in BorderedSpans : page.parts[k].span_id = trace[1].position

-----------------------------------------------------------------------------
(* Claims about the two highlighters *)

\* every annotation of the rendered list has offsets, and they are valid
AllValidOffsets ==
    \A k \in 1..Len(annotations) :
        /\ {"begin", "end"} \subseteq DOMAIN annotations[k]
        /\ ValidPositions(text, annotations[k].begin, annotations[k].end)

\* the codes that occur in the rendered list
CodesOfList ==
    {annotations[k].code : k \in {j \in 1..Len(annotations) : "code" \in DOMAIN annotations[j]}}

\* the pieces of create_highlighted_text before escaping and styling
WebPieces(txt, anns) ==
    LET parts == CreateHighlightedText(txt, anns, NoSelection)
    IN  [k \in 1..Len(parts) |-> Segment(parts[k].content, parts[k].highlighted)]

\* C25: for every text and every non-empty annotation list whose spans all
\* have valid offsets, the (content, highlighted) pieces of
\* create_highlighted_text equal those of _highlight_text when the active
\* codes contain every code of the list.
C25_AsStated ==
    (/\ annotations # <<>>
     /\ AllValidOffsets
     /\ CodesOfList \subseteq selected_codes)
        => WebPieces(text, annotations) = HighlightText(text, annotations, selected_codes)

\* the two highlighters agree on the lists in which every annotation has a code
CodedListsAgree ==
    (/\ annotations # <<>>
     /\ AllValidOffsets
     /\ \A k \in 1..Len(annotations) : "code" \in DOMAIN annotations[k]
     /\ CodesOfList \subseteq selected_codes)
        => WebPieces(text, annotations) = HighlightText(text, annotations, selected_codes)

====
